---- MODULE Spec2Model ----
(***************************************************************************)
(* Model of the permit analysis dashboard (src/main.py).                   *)
(*                                                                         *)
(* Part I  : the credential store (user_db.json), the per-session          *)
(*           authentication state and the login / register / admin forms.  *)
(*           Every interaction of a session is one run of the script:      *)
(*           the run first loads USERS from the file (line 37) and then    *)
(*           executes the handler of the widget that was submitted.        *)
(*           Runs of different sessions interleave between the load and    *)
(*           the handler.                                                  *)
(* Part II : the data pipeline over an uploaded sheet (filter stage,       *)
(*           summary table, plant summary).                                *)
(***************************************************************************)
EXTENDS Integers, Sequences, FiniteSets, TLC

VARIABLES
    file,        \* user_db.json: [exists, users]
    USERS,       \* per session: the module-level USERS of the running script
    auth,        \* per session: st.session_state.auth
    pc,          \* per session: "idle" (between runs) or "loaded" (USERS loaded)
    msg,         \* per session: the st.error / st.success text of the last run
    adminAdded,  \* history: usernames an is_admin session added with role "admin"
    upload,      \* uploaded_file / df_raw: [uploaded, has_date, rows]
    widgets,     \* the dashboard's input widgets
    view         \* what the last run of the dashboard computed and displayed

userVars == <<file, USERS, auth, pc, msg, adminAdded>>
dataVars == <<upload, widgets, view>>
vars == <<file, USERS, auth, pc, msg, adminAdded, upload, widgets, view>>

----------------------------------------------------------------------------
(* Bounds and input sets *)

\* failed logins are counted without limit by the code; the model stops at MaxFailed
MaxFailed == 4

\* line 100: if st.session_state.auth['failed_attempts'] >= 3
LockoutThreshold == 3

Sessions == {"s1", "s2"}

\* auth['username'] of a session that is not logged in (Python None)
None == "<None>"

Usernames == {"admin", "bob"}
UsernameInputs == Usernames \cup {""}
PasswordInputs == {"", "admin123"}
NameInputs == {"Full Name"}
Roles == {"user", "admin"}

----------------------------------------------------------------------------
(* Credential store *)

\* hashlib.sha256(p.encode()).hexdigest(): distinct passwords, distinct digests
sha256(p) == <<"sha256", p>>

NoUsers == [u \in {} |-> 0]

DefaultUsers ==
    [u \in {"admin"} |->
        [name |-> "Administrator", password_hash |-> sha256("admin123"), role |-> "admin"]]

load_users(f) == IF f.exists THEN f.users ELSE DefaultUsers

\* mutant of save_users: patches the file (entries already in it are kept)
\* instead of rewriting it with the writer's map
save_users_patch(f, users) ==
    [exists |-> TRUE,
     users |-> [x \in (DOMAIN f.users) \cup (DOMAIN users) |->
                   IF x \in DOMAIN f.users THEN f.users[x] ELSE users[x]]]

save_users(f, users) == [exists |-> TRUE, users |-> users]

Put(users, u, e) == [x \in (DOMAIN users) \cup {u} |-> IF x = u THEN e ELSE users[x]]

Del(users, u) == [x \in (DOMAIN users) \ {u} |-> users[x]]

\* messages are tuples of text fragments (f-strings carry the username)
MsgNone == <<>>
MsgExists == <<"Username already exists!">>
MsgRequired == <<"Username and password are required!">>
MsgRegistered(u) == <<"User ", u, " registered successfully!">>
MsgNotFound == <<"User does not exist!">>
MsgNoAdminDelete == <<"Cannot delete the admin user!">>
MsgNoSelfDelete == <<"Cannot delete your own account while logged in!">>
MsgRemoved(u) == <<"User ", u, " removed successfully!">>
MsgMismatch == <<"Passwords do not match!">>
MsgInvalid == <<"Invalid username or password">>
MsgTooMany == <<"Too many failed attempts. Please try again later.">>

\* mutant of register_user: the duplicate-username check is missing
register_user_no_duplicate_check(users, username, name, password, role) ==
    IF username = "" \/ password = ""
    THEN [ok |-> FALSE, message |-> MsgRequired, users |-> users]
    ELSE [ok |-> TRUE, message |-> MsgRegistered(username),
          users |-> Put(users, username,
                        [name |-> name, password_hash |-> sha256(password), role |-> role])]

register_user(users, username, name, password, role) ==
    IF username \in DOMAIN users
    THEN [ok |-> FALSE, message |-> MsgExists, users |-> users]
    ELSE IF username = "" \/ password = ""
    THEN [ok |-> FALSE, message |-> MsgRequired, users |-> users]
    ELSE [ok |-> TRUE, message |-> MsgRegistered(username),
          users |-> Put(users, username,
                        [name |-> name, password_hash |-> sha256(password), role |-> role])]

\* mutant of remove_user: the own-account check is missing
remove_user_no_self_check(users, current, username) ==
    IF username \notin DOMAIN users
    THEN [ok |-> FALSE, message |-> MsgNotFound, users |-> users]
    ELSE IF username = "admin"
    THEN [ok |-> FALSE, message |-> MsgNoAdminDelete, users |-> users]
    ELSE [ok |-> TRUE, message |-> MsgRemoved(username),
          users |-> Del(users, username)]

remove_user(users, current, username) ==
    IF username \notin DOMAIN users
    THEN [ok |-> FALSE, message |-> MsgNotFound, users |-> users]
    ELSE IF username = "admin"
    THEN [ok |-> FALSE, message |-> MsgNoAdminDelete, users |-> users]
    ELSE IF username = current
    THEN [ok |-> FALSE, message |-> MsgNoSelfDelete, users |-> users]
    ELSE [ok |-> TRUE, message |-> MsgRemoved(username), users |-> Del(users, username)]

\* lines 86-87: user and user['password_hash'] == sha256(password)
credentials_ok(users, username, password) ==
    /\ username \in DOMAIN users
    /\ users[username].password_hash = sha256(password)

LoggedOut ==
    [authenticated |-> FALSE, username |-> None, failed_attempts |-> 0,
     is_admin |-> FALSE, show_register |-> FALSE,
     user_added |-> FALSE, user_removed |-> FALSE]

LoggedIn(users, username) ==
    [authenticated |-> TRUE, username |-> username, failed_attempts |-> 0,
     is_admin |-> (users[username].role = "admin"), show_register |-> FALSE,
     user_added |-> FALSE, user_removed |-> FALSE]

----------------------------------------------------------------------------
(* Part II: the data pipeline.                                              *)
(* A text value is the tuple of its characters, so that upper-casing,       *)
(* trimming, prefix and substring tests are computed as the code does.      *)

\* at most this many rows in an uploaded sheet
MaxRecords == 2

\* at most this many of the summary columns are deselected at a time
MaxHidden == 2

\* timestamps are counted in ticks; a date is the tick of its midnight
TicksPerDay == 2

\* a missing cell (NaN), a missing timestamp (NaT), a missing Status (None)
NaN == <<"<NaN>">>
NaT == 0 - 1
NoStatus == <<"<None>">>

\* the literals of the code
s_CLOSED == <<"C", "L", "O", "S", "E", "D">>
s_EXPIRED == <<"E", "X", "P", "I", "R", "E", "D">>
s_PENDING_CLOSURE == <<"P", "E", "N", "D", "I", "N", "G", " ", "C", "L", "O", "S", "U", "R", "E">>
s_nan == <<"n", "a", "n">>
s_CES_ELECTRICAL == <<"C", "E", "S", " ", "E", "L", "E", "C", "T", "R", "I", "C", "A", "L">>
s_CIVIL == <<"C", "I", "V", "I", "L">>
s_FIRE == <<"F", "I", "R", "E">>
s_HSEF == <<"H", "S", "E", "F">>
s_INSTRUMENTATION == <<"I", "N", "S", "T", "R", "U", "M", "E", "N", "T", "A", "T", "I", "O", "N">>
s_MECHANICAL == <<"M", "E", "C", "H", "A", "N", "I", "C", "A", "L">>
s_PROCESS == <<"P", "R", "O", "C", "E", "S", "S">>
s_CPP == <<"C", "P", "P">>
s_Power_Plant == <<"P", "o", "w", "e", "r", " ", "P", "l", "a", "n", "t">>
s_NCU == <<"N", "C", "U">>
s_CCR == <<"C", "C", "R">>
s_CCR_Safety_District_2 == <<"C", "C", "R", "(", "S", "a", "f", "e", "t", "y", " ", "D", "i", "s", "t", "r", "i", "c", "t", "-", "2", ")">>
s_PP == <<"P", "P">>
s_HDPE == <<"H", "D", "P", "E">>
s_IOP_ECR == <<"I", "O", "P", " ", "E", "C", "R">>
s_IOP_NCR == <<"I", "O", "P", " ", "N", "C", "R">>
s_IOP_SCR == <<"I", "O", "P", " ", "S", "C", "R">>
s_LLDPE == <<"L", "L", "D", "P", "E">>
s_NCAU == <<"N", "C", "A", "U">>
s_IOP_BAGGING == <<"I", "O", "P", " ", "B", "A", "G", "G", "I", "N", "G">>
s_OTHERS == <<"O", "T", "H", "E", "R", "S">>
s_CPP_label == <<"C", "P", "P", " ", "(", "I", "n", "c", "l", "u", "d", "i", "n", "g", " ", "P", "o", "w", "e", "r", " ", "P", "l", "a", "n", "t", " ", "A", "r", "e", "a", "s", ")">>
s_NCU_label == <<"N", "C", "U", " ", "(", "I", "n", "c", "l", "u", "d", "i", "n", "g", " ", "C", "C", "R", " ", "A", "r", "e", "a", "s", ")">>
s_TOTAL == <<"T", "O", "T", "A", "L">>
s_RESPONSIBILITY_AREAS == <<"R", "E", "S", "P", "O", "N", "S", "I", "B", "I", "L", "I", "T", "Y", " ", "A", "R", "E", "A", "S">>
s_POWER_PLANT == <<"P", "O", "W", "E", "R", " ", "P", "L", "A", "N", "T">>

\* values of uploaded cells
ws_closed == <<"c", "l", "o", "s", "e", "d">>
ws_Closed_padded == <<" ", "C", "l", "o", "s", "e", "d", " ">>
ws_Expired == <<"E", "x", "p", "i", "r", "e", "d">>
ws_Pending_padded == <<"P", "e", "n", "d", "i", "n", "g", " ", "C", "l", "o", "s", "u", "r", "e", " ">>
ws_OPEN == <<"O", "P", "E", "N">>
ra_PP_Unit1 == <<"P", "P", "-", "U", "n", "i", "t", "1">>
ra_IOP_PP2 == <<"I", "O", "P", " ", "P", "P", "2">>
ra_CPP_A == <<"C", "P", "P", "-", "A">>
ra_Power_Plant_1 == <<"P", "o", "w", "e", "r", " ", "P", "l", "a", "n", "t", " ", "1">>
ra_NCU_1 == <<"N", "C", "U", "-", "1">>
ra_CCR_2 == <<"C", "C", "R", "-", "2">>
ra_Unit_CCR_SD2 == <<"U", "n", "i", "t", " ", "C", "C", "R", "(", "S", "a", "f", "e", "t", "y", " ", "D", "i", "s", "t", "r", "i", "c", "t", "-", "2", ")">>
ra_X_CCRSafety == <<"X", " ", "C", "C", "R", "S", "a", "f", "e", "t", "y", " ", "D", "i", "s", "t", "r", "i", "c", "t", "-", "2">>
ra_hdpe_line == <<"h", "d", "p", "e", " ", "l", "i", "n", "e">>
ra_hsef_yard == <<"h", "s", "e", "f", " ", "y", "a", "r", "d">>
ra_CPP_HSEF == <<"C", "P", "P", " ", "H", "S", "E", "F">>
dp_Civil == <<"C", "i", "v", "i", "l">>
dp_FIRE == <<"F", "I", "R", "E">>
dp_Stores == <<"S", "t", "o", "r", "e", "s">>

LowerCase == <<"a","b","c","d","e","f","g","h","i","j","k","l","m",
               "n","o","p","q","r","s","t","u","v","w","x","y","z">>
UpperCase == <<"A","B","C","D","E","F","G","H","I","J","K","L","M",
               "N","O","P","Q","R","S","T","U","V","W","X","Y","Z">>

upper_map ==
    [c \in {LowerCase[i] : i \in 1..Len(LowerCase)} |->
        UpperCase[CHOOSE i \in 1..Len(LowerCase) : LowerCase[i] = c]]

upper_char(c) == IF c \in DOMAIN upper_map THEN upper_map[c] ELSE c

\* str.upper()
upper(s) == [i \in 1..Len(s) |-> upper_char(s[i])]

\* str.strip()
strip(s) ==
    LET keep == {i \in 1..Len(s) : s[i] # " "} IN
    IF keep = {} THEN <<>>
    ELSE SubSeq(s, CHOOSE i \in keep : \A j \in keep : i <= j,
                   CHOOSE i \in keep : \A j \in keep : i >= j)

\* str(x): a missing cell prints as "nan"
py_str(x) == IF x = NaN THEN s_nan ELSE x

\* Series.str.upper(): a missing cell stays missing
str_upper(x) == IF x = NaN THEN NaN ELSE upper(x)

startswith(s, prefix) == Len(s) >= Len(prefix) /\ SubSeq(s, 1, Len(prefix)) = prefix

contains(s, sub) == \E i \in 0..(Len(s) - Len(sub)) : SubSeq(s, i + 1, i + Len(sub)) = sub

\* Series.str.startswith(prefix, na=False)
str_startswith(x, prefix) == x # NaN /\ startswith(x, prefix)

IsParen(c) == c \in {"(", ")"}
NotParen(c) == ~IsParen(c)

\* The text a regular expression made of plain characters and one group matches:
\* the parentheses group, they match no character.
regex_text(pat) == SelectSeq(pat, NotParen)

\* Series.str.contains(pat, case=case, na=False): pat is a regular expression
\* (regex=True is the default)
str_contains(x, pat, case) ==
    /\ x # NaN
    /\ IF case THEN contains(x, regex_text(pat))
       ELSE contains(upper(x), upper(regex_text(pat)))

Range(s) == {s[i] : i \in DOMAIN s}

\* line 360
dept_cols ==
    <<s_CES_ELECTRICAL, s_CIVIL, s_FIRE, s_HSEF, s_INSTRUMENTATION, s_MECHANICAL, s_PROCESS>>

\* line 411
all_columns == dept_cols \o <<s_EXPIRED, s_PENDING_CLOSURE, s_CLOSED>>

\* line 438
plant_options ==
    <<s_CPP, s_HDPE, s_HSEF, s_IOP_ECR, s_IOP_NCR, s_IOP_SCR, s_LLDPE, s_NCAU, s_NCU,
      s_IOP_BAGGING, s_OTHERS, s_PP>>

\* utils.helpers.map_area is not among the sources; modelled from the Area Mapper
\* contract: ordered prefix / substring rules on the trimmed, upper-cased text,
\* the first match wins, anything else (and a missing value) is "OTHERS".
map_area(x) ==
    LET s == strip(upper(IF x = NaN THEN <<>> ELSE x)) IN
    IF startswith(s, s_CPP) \/ startswith(s, s_POWER_PLANT) THEN s_CPP
    ELSE IF \/ startswith(s, s_NCU)
            \/ startswith(s, s_CCR)
            \/ contains(s, upper(s_CCR_Safety_District_2)) THEN s_NCU
    ELSE IF startswith(s, s_PP) THEN s_PP
    ELSE s_OTHERS

\* the labels map_area yields, in the order a sorted index lists them
area_labels == <<s_CPP, s_NCU, s_OTHERS, s_PP>>

\* mutant of closed_flag: the text is trimmed before it is upper-cased
closed_flag_trimmed(state) == state # NaN /\ upper(strip(state)) = s_CLOSED

\* lines 254 and 381: Series.str.upper() == "CLOSED"
closed_flag(state) == str_upper(state) = s_CLOSED

\* mutant of status_of: every state that is not pending closure counts as expired
status_of_default_expired(state) ==
    IF upper(strip(py_str(state))) = s_PENDING_CLOSURE THEN s_PENDING_CLOSURE
    ELSE s_EXPIRED

\* lines 371-378: the Status classification
status_of(state) ==
    LET u == upper(strip(py_str(state))) IN
    IF u = s_PENDING_CLOSURE THEN s_PENDING_CLOSURE
    ELSE IF u = s_EXPIRED THEN s_EXPIRED
    ELSE NoStatus

\* pd.to_datetime(date): the midnight that starts the date
to_datetime(d) == IF d = NaT THEN NaT ELSE d * TicksPerDay

\* the date of a timestamp, as st.date_input takes it as a default
date_of(ts) == IF ts = NaT THEN NaT ELSE ts \div TicksPerDay

\* comparisons with a missing timestamp are false
ts_ge(a, b) == a # NaT /\ b # NaT /\ a >= b
ts_le(a, b) == a # NaT /\ b # NaT /\ a <= b

\* lines 251-254: the uploaded sheet with its row labels and the Closed column
df_raw(up) ==
    [i \in 1..Len(up.rows) |->
        [idx |-> i,
         permit |-> up.rows[i].permit,
         Department |-> up.rows[i].dept,
         areas |-> up.rows[i].areas,
         state |-> up.rows[i].state,
         date |-> up.rows[i].date,
         Closed |-> closed_flag(up.rows[i].state),
         Area |-> NaN,
         Status |-> NoStatus]]

\* mutant of in_range: the bounds are exclusive
in_range_exclusive(ts, range) ==
    /\ ts # NaT /\ to_datetime(range[1]) # NaT /\ ts > to_datetime(range[1])
    /\ to_datetime(range[2]) # NaT /\ ts < to_datetime(range[2])

\* lines 269-270 and 281-282: start <= Created Date <= end
in_range(ts, range) ==
    /\ ts_ge(ts, to_datetime(range[1]))
    /\ ts_le(ts, to_datetime(range[2]))

date_filter(rows, range) == SelectSeq(rows, LAMBDA r : in_range(r.date, range))

\* Series.min() / Series.max() skip missing timestamps; NaT when none is left
ts_min(rows) ==
    LET ds == {rows[i].date : i \in DOMAIN rows} \ {NaT} IN
    IF ds = {} THEN NaT ELSE CHOOSE d \in ds : \A e \in ds : d <= e

ts_max(rows) ==
    LET ds == {rows[i].date : i \in DOMAIN rows} \ {NaT} IN
    IF ds = {} THEN NaT ELSE CHOOSE d \in ds : \A e \in ds : d >= e

\* lines 257-287: df, the sheet after the global date range
global_df(up, w) ==
    IF up.has_date THEN date_filter(df_raw(up), w.global_date) ELSE df_raw(up)

\* lines 280-287: filtered_df after the results date range
results_df(up, w) ==
    IF up.has_date THEN date_filter(global_df(up, w), w.results_filter) ELSE global_df(up, w)

\* lines 303-304
dept_filter(rows, departments) ==
    IF departments # {}
    THEN SelectSeq(rows, LAMBDA r : r.Department \in departments)
    ELSE rows

\* lines 298-301: the options of the department multiselect
dept_options(up, w) ==
    {global_df(up, w)[i].Department : i \in DOMAIN global_df(up, w)} \ {NaN}

\* lines 363-381: Area, upper-cased Department, Status and Closed of filtered_df
derive(rows) ==
    [i \in DOMAIN rows |->
        [rows[i] EXCEPT !.Area = map_area(rows[i].areas),
                        !.Department = str_upper(rows[i].Department),
                        !.Status = status_of(rows[i].state),
                        !.Closed = closed_flag(rows[i].state)]]

\* lines 257-381: the working subset, filtered_df
filtered_df(up, w) == derive(dept_filter(results_df(up, w), w.departments))

\* line 382: closed_counts
closed_counts(fd) ==
    [a \in {fd[i].Area : i \in DOMAIN fd} |->
        Cardinality({i \in DOMAIN fd : fd[i].Area = a /\ fd[i].Closed})]

\* lines 385-392: pivot (rows with a missing Department fall out of the grouping)
pivot(fd) ==
    LET grouped == {i \in DOMAIN fd : fd[i].Department # NaN} IN
    [a \in {fd[i].Area : i \in grouped} |->
        [d \in Range(dept_cols) |->
            Cardinality({i \in grouped : /\ fd[i].Area = a
                                         /\ fd[i].Department = d
                                         /\ fd[i].permit # NaN})]]

\* line 394: status_counts
status_counts(fd) ==
    LET with_status == {i \in DOMAIN fd : fd[i].Status # NoStatus} IN
    [a \in {fd[i].Area : i \in with_status} |->
        [c \in {fd[i].Status : i \in with_status} |->
            Cardinality({i \in with_status : fd[i].Area = a /\ fd[i].Status = c})]]

\* lines 397-404: one row per Area of pivot or status_counts, missing cells 0
table_body(fd) ==
    LET pv == pivot(fd)
        sc == status_counts(fd)
        cc == closed_counts(fd)
        index == SelectSeq(area_labels, LAMBDA a : a \in (DOMAIN pv) \cup (DOMAIN sc))
        cells(a) ==
            [c \in Range(all_columns) |->
                IF c \in Range(dept_cols) THEN (IF a \in DOMAIN pv THEN pv[a][c] ELSE 0)
                ELSE IF c = s_CLOSED THEN cc[a]
                ELSE IF a \in DOMAIN sc /\ c \in DOMAIN sc[a] THEN sc[a][c]
                ELSE 0]
    IN [i \in 1..Len(index) |-> [Area |-> index[i], cells |-> cells(index[i])]]

RECURSIVE column_sum(_, _)
column_sum(rows, c) ==
    IF rows = <<>> THEN 0 ELSE rows[1].cells[c] + column_sum(Tail(rows), c)

\* mutant of total_row: only the department columns are summed
total_row_departments_only(body) ==
    [Area |-> s_TOTAL,
     cells |-> [c \in Range(all_columns) |->
                   IF c \in Range(dept_cols) THEN column_sum(body, c) ELSE 0]]

\* lines 406-407: total_row
total_row(body) ==
    [Area |-> s_TOTAL, cells |-> [c \in Range(all_columns) |-> column_sum(body, c)]]

\* line 408: final_table
final_table(fd) == Append(table_body(fd), total_row(table_body(fd)))

\* lines 410-418: display_table
display_table(table, selected_columns) ==
    [columns |-> <<s_RESPONSIBILITY_AREAS>> \o selected_columns,
     rows |-> [i \in DOMAIN table |->
                  [Area |-> table[i].Area,
                   cells |-> [c \in Range(selected_columns) |-> table[i].cells[c]]]]]

\* lines 442-463: which Responsibility Areas the selected plant takes
plant_rule(plant, x) ==
    IF plant = s_CPP
    THEN str_startswith(x, s_CPP) \/ str_startswith(x, s_Power_Plant)
    ELSE IF plant = s_NCU
    THEN \/ str_startswith(x, s_NCU)
         \/ str_startswith(x, s_CCR)
         \/ str_contains(x, s_CCR_Safety_District_2, TRUE)
    ELSE IF plant = s_PP
    THEN str_startswith(x, s_PP)
    ELSE str_contains(x, plant, FALSE)

\* mutant of plant_area: every plant writes its own name as the Area
plant_area_always_overridden(plant, area) ==
    IF plant = s_CPP THEN s_CPP_label
    ELSE IF plant = s_NCU THEN s_NCU_label
    ELSE plant

\* lines 448, 456, 460: the Area written over the matched records
plant_area(plant, area) ==
    IF plant = s_CPP THEN s_CPP_label
    ELSE IF plant = s_NCU THEN s_NCU_label
    ELSE IF plant = s_PP THEN s_PP
    ELSE area

\* lines 442-463: plant_df
plant_df(fd, plant) ==
    LET matched == SelectSeq(fd, LAMBDA r : plant_rule(plant, r.areas)) IN
    [i \in DOMAIN matched |->
        [matched[i] EXCEPT !.Area = plant_area(plant, matched[i].Area)]]

\* lines 465-487: the warning, or the grouped counts with their TOTAL and the export
plantwise_summary(pdf) ==
    IF pdf = <<>>
    THEN [shown |-> FALSE, export |-> FALSE, warning |-> TRUE, groups |-> <<>>, total |-> 0]
    ELSE LET grouped == {i \in DOMAIN pdf : pdf[i].Department # NaN}
             groups == [k \in {<<pdf[i].Area, pdf[i].Department>> : i \in grouped} |->
                           Cardinality({i \in grouped :
                               <<pdf[i].Area, pdf[i].Department>> = k})]
         IN [shown |-> TRUE, export |-> TRUE, warning |-> FALSE,
             groups |-> groups, total |-> Cardinality(grouped)]

\* the state before a sheet is uploaded (line 488)
NoUpload == [uploaded |-> FALSE, has_date |-> FALSE, rows |-> <<>>]

NoWidgets ==
    [global_date |-> <<NaT, NaT>>, results_filter |-> <<NaT, NaT>>, departments |-> {},
     selected_columns |-> all_columns, selected_plant |-> plant_options[1]]

NoView ==
    [rendered |-> FALSE, date_warning |-> FALSE, filtered_df |-> <<>>,
     display_table |-> [columns |-> <<>>, rows |-> <<>>],
     plant_df |-> <<>>,
     plantwise_summary |-> [shown |-> FALSE, export |-> FALSE, warning |-> FALSE,
                            groups |-> <<>>, total |-> 0]]

\* the defaults of the date pickers (lines 259-279): the dates of the earliest
\* and latest Created Date
default_widgets(up) ==
    LET g == <<date_of(ts_min(df_raw(up))), date_of(ts_max(df_raw(up)))>>
        df == IF up.has_date THEN date_filter(df_raw(up), g) ELSE df_raw(up)
    IN [NoWidgets EXCEPT
           !.global_date = IF up.has_date THEN g ELSE <<NaT, NaT>>,
           !.results_filter = IF up.has_date
                              THEN <<date_of(ts_min(df)), date_of(ts_max(df))>>
                              ELSE <<NaT, NaT>>]

\* lines 249-487: one run of the dashboard over the uploaded sheet
run_dashboard(up, w) ==
    LET fd == filtered_df(up, w)
        pdf == plant_df(fd, w.selected_plant)
    IN [rendered |-> TRUE,
        date_warning |-> ~up.has_date,
        filtered_df |-> fd,
        display_table |-> display_table(final_table(fd), w.selected_columns),
        plant_df |-> pdf,
        plantwise_summary |-> plantwise_summary(pdf)]

----------------------------------------------------------------------------
(* Script runs *)

Init ==
    /\ file = [exists |-> FALSE, users |-> NoUsers]
    /\ USERS = [s \in Sessions |-> NoUsers]
    /\ auth = [s \in Sessions |-> LoggedOut]
    /\ pc = [s \in Sessions |-> "idle"]
    /\ msg = [s \in Sessions |-> MsgNone]
    /\ adminAdded = {}
    /\ upload = NoUpload
    /\ widgets = NoWidgets
    /\ view = NoView

\* The end of a run: the script's globals are gone.
EndRun(s) ==
    /\ pc' = [pc EXCEPT ![s] = "idle"]
    /\ USERS' = [USERS EXCEPT ![s] = NoUsers]
    /\ UNCHANGED dataVars

\* A run starts: USERS = load_users() (line 37); an authenticated run shows and
\* clears the user_added / user_removed notices (lines 186-192).
StartRun(s) ==
    /\ pc[s] = "idle"
    /\ pc' = [pc EXCEPT ![s] = "loaded"]
    /\ USERS' = [USERS EXCEPT ![s] = load_users(file)]
    /\ msg' = [msg EXCEPT ![s] = MsgNone]
    /\ auth' = [auth EXCEPT ![s] =
                  IF @.authenticated
                  THEN [@ EXCEPT !.user_added = FALSE, !.user_removed = FALSE]
                  ELSE @]
    /\ UNCHANGED <<file, adminAdded>>
    /\ UNCHANGED dataVars

\* A run in which no button or form was submitted.
Render(s) ==
    /\ pc[s] = "loaded"
    /\ EndRun(s)
    /\ UNCHANGED <<file, auth, msg, adminAdded>>

\* show_login, lines 125-129: the Login / Register toggle buttons.
ToggleForm(s, register) ==
    /\ pc[s] = "loaded"
    /\ ~auth[s].authenticated
    /\ auth' = [auth EXCEPT ![s].show_register = register]
    /\ EndRun(s)
    /\ UNCHANGED <<file, msg, adminAdded>>

\* show_login, lines 131-149: the register form; role defaults to "user".
SubmitRegister(s, username, name, password, confirm) ==
    /\ pc[s] = "loaded"
    /\ ~auth[s].authenticated
    /\ auth[s].show_register
    /\ IF password # confirm
       THEN /\ msg' = [msg EXCEPT ![s] = MsgMismatch]
            /\ UNCHANGED <<file, auth>>
       ELSE LET r == register_user(USERS[s], username, name, password, "user") IN
            /\ msg' = [msg EXCEPT ![s] = r.message]
            /\ file' = IF r.ok THEN save_users(file, r.users) ELSE file
            /\ auth' = IF r.ok
                       THEN [auth EXCEPT ![s].user_added = TRUE,
                                         ![s].show_register = FALSE]
                       ELSE auth
    /\ EndRun(s)
    /\ UNCHANGED adminAdded

\* show_login, lines 151-157, and authenticate, lines 84-103.
SubmitLogin(s, username, password) ==
    /\ pc[s] = "loaded"
    /\ ~auth[s].authenticated
    /\ ~auth[s].show_register
    /\ IF credentials_ok(USERS[s], username, password)
       THEN /\ auth' = [auth EXCEPT ![s] = LoggedIn(USERS[s], username)]
            /\ msg' = msg
       ELSE /\ auth[s].failed_attempts < MaxFailed
            /\ auth' = [auth EXCEPT ![s].failed_attempts = @ + 1]
            /\ msg' = [msg EXCEPT ![s] =
                         IF auth[s].failed_attempts + 1 >= LockoutThreshold
                         THEN MsgTooMany ELSE MsgInvalid]
    /\ EndRun(s)
    /\ UNCHANGED <<file, adminAdded>>

\* lines 182-183 and logout, lines 105-116.
Logout(s) ==
    /\ pc[s] = "loaded"
    /\ auth[s].authenticated
    /\ auth' = [auth EXCEPT ![s] = LoggedOut]
    /\ EndRun(s)
    /\ UNCHANGED <<file, msg, adminAdded>>

\* mutant of AdminAddUser: the form is shown without the is_admin test of line 195
AdminAddUser_no_admin_gate(s, username, name, password, role) ==
    /\ pc[s] = "loaded"
    /\ auth[s].authenticated
    /\ LET r == register_user(USERS[s], username, name, password, role) IN
       /\ msg' = [msg EXCEPT ![s] = r.message]
       /\ file' = IF r.ok THEN save_users(file, r.users) ELSE file
       /\ auth' = IF r.ok THEN [auth EXCEPT ![s].user_added = TRUE] ELSE auth
       /\ adminAdded' = IF r.ok /\ role = "admin" /\ auth[s].authenticated /\ auth[s].is_admin
                        THEN adminAdded \cup {username} ELSE adminAdded
    /\ EndRun(s)

\* lines 195-224: the admin_add_user form.
AdminAddUser(s, username, name, password, role) ==
    /\ pc[s] = "loaded"
    /\ auth[s].authenticated
    /\ auth[s].is_admin
    /\ LET r == register_user(USERS[s], username, name, password, role) IN
       /\ msg' = [msg EXCEPT ![s] = r.message]
       /\ file' = IF r.ok THEN save_users(file, r.users) ELSE file
       /\ auth' = IF r.ok THEN [auth EXCEPT ![s].user_added = TRUE] ELSE auth
       /\ adminAdded' = IF r.ok /\ role = "admin" /\ auth[s].authenticated /\ auth[s].is_admin
                        THEN adminAdded \cup {username} ELSE adminAdded
    /\ EndRun(s)

\* line 230: the users the remove form offers
removable_users(users, current) == {u \in DOMAIN users : u # "admin" /\ u # current}

\* line 231: st.selectbox over an empty list yields None
RemoveChoices(users, current) ==
    IF removable_users(users, current) = {} THEN {None} ELSE removable_users(users, current)

\* remove_user as called from a run of session s
RemoveUserCall(s, username) ==
    /\ pc[s] = "loaded"
    /\ LET r == remove_user(USERS[s], auth[s].username, username) IN
       /\ msg' = [msg EXCEPT ![s] = r.message]
       /\ file' = IF r.ok THEN save_users(file, r.users) ELSE file
       /\ auth' = IF r.ok THEN [auth EXCEPT ![s].user_removed = TRUE] ELSE auth
    /\ EndRun(s)
    /\ UNCHANGED adminAdded

\* lines 195, 226-242: the admin_remove_user form.
AdminRemoveUser(s, username) ==
    /\ auth[s].authenticated
    /\ auth[s].is_admin
    /\ Cardinality(DOMAIN USERS[s]) > 1
    /\ username \in RemoveChoices(USERS[s], auth[s].username)
    /\ RemoveUserCall(s, username)

Next ==
    \E s \in Sessions :
        \/ StartRun(s)
        \/ Render(s)
        \/ \E b \in BOOLEAN : ToggleForm(s, b)
        \/ \E u \in UsernameInputs, n \in NameInputs, p \in PasswordInputs, c \in PasswordInputs :
               SubmitRegister(s, u, n, p, c)
        \/ \E u \in UsernameInputs, p \in PasswordInputs : SubmitLogin(s, u, p)
        \/ Logout(s)
        \/ \E u \in UsernameInputs, n \in NameInputs, p \in PasswordInputs, r \in Roles :
               AdminAddUser(s, u, n, p, r)
        \/ \E u \in Usernames \cup {None} : AdminRemoveUser(s, u)

Spec == Init /\ [][Next]_vars

----------------------------------------------------------------------------
(* remove_user called directly, with any argument, from any authenticated   *)
(* session and any store the file can hold.                                 *)

StoreUsernames == {"admin", "bob", "eve"}
RemoveInputs == StoreUsernames \cup {None, ""}

StoredEntry(role) ==
    [name |-> "Full Name", password_hash |-> sha256("admin123"), role |-> role]

Stores ==
    { [u \in {"admin"} \cup {x \in {"bob", "eve"} : r[x] # "absent"} |->
          IF u = "admin" THEN DefaultUsers["admin"] ELSE StoredEntry(r[u])]
      : r \in [{"bob", "eve"} -> {"absent", "user", "admin"}] }

InitRemove ==
    /\ file \in {[exists |-> TRUE, users |-> m] : m \in Stores}
    /\ USERS = [s \in Sessions |-> NoUsers]
    /\ auth \in [Sessions ->
                   {[LoggedOut EXCEPT !.authenticated = TRUE, !.username = u, !.is_admin = a]
                      : u \in StoreUsernames, a \in BOOLEAN}]
    /\ pc = [s \in Sessions |-> "idle"]
    /\ msg = [s \in Sessions |-> MsgNone]
    /\ adminAdded = {}
    /\ upload = NoUpload
    /\ widgets = NoWidgets
    /\ view = NoView

NextRemove ==
    \E s \in Sessions :
        \/ StartRun(s)
        \/ \E u \in RemoveInputs : RemoveUserCall(s, u)

SpecRemove == InitRemove /\ [][NextRemove]_vars

----------------------------------------------------------------------------
(* The dashboard of one authenticated session: every upload and every       *)
(* widget change reruns lines 249-487 over the uploaded sheet.              *)

Viewer == "s1"

Seqs(S, n) == UNION {[1..k -> S] : k \in 1..n}

Row(dept, areas, state, date) ==
    [permit |-> <<"1">>, dept |-> dept, areas |-> areas, state |-> state, date |-> date]

Sheet(has_date, rows) == [uploaded |-> TRUE, has_date |-> has_date, rows |-> rows]

\* sheets for the filter stage: timestamps at a bound, after a bound, missing
FilterDepartments == {dp_Civil, dp_FIRE, NaN}
FilterDays == {0, 1}
FilterTimestamps == {NaT, 0, 2, 3}
FilterSheets ==
    {Sheet(TRUE, rows) :
        rows \in Seqs({Row(d, ra_PP_Unit1, ws_OPEN, ts) :
                          d \in FilterDepartments, ts \in FilterTimestamps}, MaxRecords)}
    \cup
    {Sheet(FALSE, rows) :
        rows \in Seqs({Row(d, ra_PP_Unit1, ws_OPEN, NaT) : d \in FilterDepartments},
                      MaxRecords)}
DateRanges == {r \in FilterDays \X FilterDays : r[1] <= r[2]}

\* sheets for the summary table
SummaryRows ==
    {Row(dp_Civil, ra_PP_Unit1, ws_closed, NaT),
     Row(dp_FIRE, ra_PP_Unit1, ws_Closed_padded, NaT),
     Row(dp_Civil, ra_CPP_A, ws_Expired, NaT),
     Row(dp_Stores, ra_CPP_A, ws_Pending_padded, NaT),
     Row(NaN, ra_NCU_1, ws_OPEN, NaT),
     Row(dp_FIRE, ra_hdpe_line, NaN, NaT)}
SummarySheets == {Sheet(FALSE, rows) : rows \in Seqs(SummaryRows, MaxRecords)}

\* sheets for the plant summary
PlantAreas ==
    {ra_PP_Unit1, ra_IOP_PP2, ra_CPP_A, ra_Power_Plant_1, ra_CCR_2,
     ra_Unit_CCR_SD2, ra_X_CCRSafety, ra_hsef_yard, ra_CPP_HSEF, NaN}
PlantSheets ==
    {Sheet(FALSE, rows) :
        rows \in Seqs({Row(dp_Civil, a, ws_OPEN, NaT) : a \in PlantAreas}, MaxRecords)}

InitData ==
    /\ file = [exists |-> FALSE, users |-> NoUsers]
    /\ USERS = [s \in Sessions |-> NoUsers]
    /\ auth = [s \in Sessions |->
                 IF s = Viewer THEN LoggedIn(DefaultUsers, "admin") ELSE LoggedOut]
    /\ pc = [s \in Sessions |-> "idle"]
    /\ msg = [s \in Sessions |-> MsgNone]
    /\ adminAdded = {}
    /\ upload = NoUpload
    /\ widgets = NoWidgets
    /\ view = NoView

\* a run of the dashboard (behind the gate of line 162)
Rerun(up, w) ==
    /\ auth[Viewer].authenticated
    /\ upload' = up
    /\ widgets' = w
    /\ view' = run_dashboard(up, w)
    /\ UNCHANGED userVars

\* line 247: a sheet is uploaded
Upload(sheet) ==
    /\ ~upload.uploaded
    /\ Rerun(sheet, default_widgets(sheet))

\* the uploaded sheet is removed: line 488, and the widgets are gone
RemoveFile ==
    /\ auth[Viewer].authenticated
    /\ upload.uploaded
    /\ upload' = NoUpload
    /\ widgets' = NoWidgets
    /\ view' = NoView
    /\ UNCHANGED userVars

\* lines 262-266
SetGlobalDate(range) ==
    /\ upload.uploaded
    /\ upload.has_date
    /\ Rerun(upload, [widgets EXCEPT !.global_date = range])

\* lines 275-279
SetResultsFilter(range) ==
    /\ upload.uploaded
    /\ upload.has_date
    /\ Rerun(upload, [widgets EXCEPT !.results_filter = range])

\* lines 298-301
SetDepartments(departments) ==
    /\ upload.uploaded
    /\ departments \subseteq dept_options(upload, widgets)
    /\ Rerun(upload, [widgets EXCEPT !.departments = departments])

\* lines 412-416: one column is taken out of the multiselect
DeselectColumn(c) ==
    /\ upload.uploaded
    /\ c \in Range(widgets.selected_columns)
    /\ Len(all_columns) - Len(widgets.selected_columns) < MaxHidden
    /\ Rerun(upload, [widgets EXCEPT
                         !.selected_columns = SelectSeq(@, LAMBDA x : x # c)])

\* line 439
SelectPlant(plant) ==
    /\ upload.uploaded
    /\ Rerun(upload, [widgets EXCEPT !.selected_plant = plant])

NextFilter ==
    \/ \E sheet \in FilterSheets : Upload(sheet)
    \/ RemoveFile
    \/ \E range \in DateRanges : SetGlobalDate(range)
    \/ \E range \in DateRanges : SetResultsFilter(range)
    \/ \E departments \in SUBSET (FilterDepartments \ {NaN}) : SetDepartments(departments)

SpecFilter == InitData /\ [][NextFilter]_vars

NextSummary ==
    \/ \E sheet \in SummarySheets : Upload(sheet)
    \/ RemoveFile
    \/ \E c \in Range(all_columns) : DeselectColumn(c)

SpecSummary == InitData /\ [][NextSummary]_vars

NextPlant ==
    \/ \E sheet \in PlantSheets : Upload(sheet)
    \/ RemoveFile
    \/ \E plant \in Range(plant_options) : SelectPlant(plant)

SpecPlant == InitData /\ [][NextPlant]_vars

----------------------------------------------------------------------------
(* Claims *)

\* C1: every login attempt with wrong credentials raises failed_attempts by
\* exactly 1, and a session whose counter has reached 3 stays unauthenticated in
\* every later step, whatever credentials are submitted.
C1_FailedLoginLocksSession ==
    [][\A s \in Sessions :
          /\ \A u \in UsernameInputs, p \in PasswordInputs :
                (SubmitLogin(s, u, p) /\ ~credentials_ok(USERS[s], u, p))
                    => auth'[s].failed_attempts = auth[s].failed_attempts + 1
          /\ (~auth[s].authenticated /\ auth[s].failed_attempts >= LockoutThreshold)
                => ~auth'[s].authenticated]_vars

\* C2: register_user with an existing username, an empty username or an empty
\* password fails and leaves the user store unchanged: the in-memory map is the
\* same, the file is not written, and a duplicate username is reported with the
\* duplicate-username message.
C2_RegisterFailureLeavesStore ==
    [][\A s \in Sessions, u \in UsernameInputs, n \in NameInputs,
          p \in PasswordInputs, role \in Roles :
          (/\ SubmitRegister(s, u, n, p, p) \/ AdminAddUser(s, u, n, p, role)
           /\ u \in DOMAIN USERS[s] \/ u = "" \/ p = "")
              => /\ file' = file
                 /\ register_user(USERS[s], u, n, p, role).users = USERS[s]
                 /\ ~register_user(USERS[s], u, n, p, role).ok
                 /\ msg'[s] \in {MsgExists, MsgRequired}
                 /\ u \in DOMAIN USERS[s] => msg'[s] = MsgExists
                 /\ auth'[s].user_added = auth[s].user_added]_vars

\* C2 witness: "bob" is in the store and a second registration was refused as a
\* duplicate.
C2_Witness ==
    /\ file.exists
    /\ "bob" \in DOMAIN file.users
    /\ \E s \in Sessions : pc[s] = "idle" /\ msg[s] = MsgExists

\* C3: remove_user fails and leaves the store unchanged when the username is not
\* in the store, is "admin", or is the session's own username; otherwise it
\* deletes exactly that user and writes the remaining map.
C3_RemoveUserCases ==
    [][\A s \in Sessions, u \in RemoveInputs :
          RemoveUserCall(s, u) =>
              IF u \notin DOMAIN USERS[s] \/ u = "admin" \/ u = auth[s].username
              THEN /\ file' = file
                   /\ remove_user(USERS[s], auth[s].username, u).users = USERS[s]
                   /\ msg'[s] \in {MsgNotFound, MsgNoAdminDelete, MsgNoSelfDelete}
              ELSE /\ file'.exists
                   /\ DOMAIN file'.users = (DOMAIN USERS[s]) \ {u}
                   /\ \A x \in DOMAIN file'.users : file'.users[x] = USERS[s][x]
                   /\ msg'[s] = MsgRemoved(u)]_vars

\* C3 witness: one session was refused the removal of its own account, the other
\* removed "eve", and "bob" is still stored.
C3_Witness ==
    /\ \E s \in Sessions : msg[s] = MsgNoSelfDelete
    /\ \E s \in Sessions : msg[s] = MsgRemoved("eve")
    /\ "bob" \in DOMAIN file.users
    /\ "eve" \notin DOMAIN file.users

\* C9: the file changes only by a successful add or remove, and then it holds the
\* writer's whole in-memory map (the map the writer loaded, with the one user
\* added or removed), whatever the file held before: the last writer wins.
C9_LastWriterWins ==
    [][/\ file' # file =>
            \E s \in Sessions :
                /\ pc[s] = "loaded" /\ pc'[s] = "idle"
                /\ \E u \in Usernames : msg'[s] \in {MsgRegistered(u), MsgRemoved(u)}
       /\ \A s \in Sessions, u \in Usernames :
            (pc[s] = "loaded" /\ pc'[s] = "idle" /\ msg'[s] = MsgRegistered(u))
                => /\ file'.exists
                   /\ DOMAIN file'.users = (DOMAIN USERS[s]) \cup {u}
                   /\ \A x \in DOMAIN USERS[s] : file'.users[x] = USERS[s][x]
       /\ \A s \in Sessions, u \in Usernames :
            (pc[s] = "loaded" /\ pc'[s] = "idle" /\ msg'[s] = MsgRemoved(u))
                => /\ file'.exists
                   /\ file'.users = Del(USERS[s], u)]_vars

\* C9 witness: the last run of each session registered "bob" (so the second writer
\* had loaded the store before the first one wrote), an admin session added "bob"
\* with role "admin", and the file holds "bob" with role "user".
C9_Witness ==
    /\ \A s \in Sessions : pc[s] = "idle" /\ msg[s] = MsgRegistered("bob")
    /\ "bob" \in adminAdded
    /\ "bob" \in DOMAIN file.users
    /\ file.users["bob"].role = "user"

\* C10: every account with role "admin" other than the seeded "admin", in the
\* file and in every loaded map, was added by a session authenticated with
\* is_admin = true.
C10_AdminOnlyByAdmin ==
    /\ \A u \in DOMAIN load_users(file) :
          (u # "admin" /\ file.users[u].role = "admin") => u \in adminAdded
    /\ \A s \in Sessions : \A u \in DOMAIN USERS[s] :
          (u # "admin" /\ USERS[s][u].role = "admin") => u \in adminAdded

\* C10 witness: "bob" is stored with role "admin" while a session that registered
\* from the login screen is logged out.
C10_Witness ==
    /\ file.exists
    /\ "bob" \in DOMAIN file.users
    /\ file.users["bob"].role = "admin"
    /\ \E s \in Sessions : ~auth[s].authenticated /\ auth[s].user_added

\* the row labels of the working subset
WorkingSet == {view.filtered_df[i].idx : i \in DOMAIN view.filtered_df}

RECURSIVE SumCells(_, _)
SumCells(rows, c) ==
    IF rows = <<>> THEN 0 ELSE rows[1].cells[c] + SumCells(Tail(rows), c)

\* C4: each displayed cell of the TOTAL row is the sum of its column over the
\* Area rows of the displayed table, TOTAL is the last row and the only one so
\* labelled, and the Area column comes first, followed by the chosen columns.
C4_TotalRowSumsDisplayedColumns ==
    view.rendered =>
        LET dt == view.display_table
            n == Len(dt.rows)
        IN /\ n >= 1
           /\ dt.columns[1] = s_RESPONSIBILITY_AREAS
           /\ Tail(dt.columns) = widgets.selected_columns
           /\ dt.rows[n].Area = s_TOTAL
           /\ \A i \in 1..(n - 1) : dt.rows[i].Area # s_TOTAL
           /\ \A i \in 1..n : DOMAIN dt.rows[i].cells = Range(widgets.selected_columns)
           /\ \A c \in Range(widgets.selected_columns) :
                 dt.rows[n].cells[c] = SumCells(SubSeq(dt.rows, 1, n - 1), c)

\* C4 witness: two Area rows, a deselected column, and a displayed column whose
\* TOTAL is 2.
C4_Witness ==
    /\ view.rendered
    /\ Len(view.display_table.rows) = 3
    /\ Len(widgets.selected_columns) < Len(all_columns)
    /\ s_CIVIL \in Range(widgets.selected_columns)
    /\ view.display_table.rows[1].cells[s_CIVIL] = 1
    /\ view.display_table.rows[2].cells[s_CIVIL] = 1
    /\ view.display_table.rows[3].cells[s_CIVIL] = 2

\* C5 as stated: Closed is true iff the Workflow State, trimmed and upper-cased,
\* equals "CLOSED".
C5_ClosedIffTrimmedUpperClosed ==
    \A i \in DOMAIN view.filtered_df :
        view.filtered_df[i].Closed
            <=> (/\ view.filtered_df[i].state # NaN
                 /\ upper(strip(view.filtered_df[i].state)) = s_CLOSED)

\* C5 amended: Closed is true iff the Workflow State is present and, upper-cased
\* without trimming, equals "CLOSED"; the CLOSED cell of an Area row counts
\* exactly those records of the Area.
C5_ClosedIffUpperClosed ==
    /\ \A i \in DOMAIN view.filtered_df :
          view.filtered_df[i].Closed
              <=> (/\ view.filtered_df[i].state # NaN
                   /\ Len(view.filtered_df[i].state) = Len(s_CLOSED)
                   /\ \A k \in 1..Len(s_CLOSED) :
                         upper_char(view.filtered_df[i].state[k]) = s_CLOSED[k])
    /\ (view.rendered /\ s_CLOSED \in Range(widgets.selected_columns)) =>
          \A j \in 1..(Len(view.display_table.rows) - 1) :
              view.display_table.rows[j].cells[s_CLOSED] =
                  Cardinality({i \in DOMAIN view.filtered_df :
                      /\ view.filtered_df[i].Area = view.display_table.rows[j].Area
                      /\ view.filtered_df[i].state # NaN
                      /\ upper(view.filtered_df[i].state) = s_CLOSED})

\* C5 witness: "closed" is counted as closed and " Closed " is not.
C5_Witness ==
    /\ Len(view.filtered_df) = 2
    /\ view.filtered_df[1].state = ws_closed /\ view.filtered_df[1].Closed
    /\ view.filtered_df[2].state = ws_Closed_padded /\ ~view.filtered_df[2].Closed
    /\ view.display_table.rows[1].cells[s_CLOSED] = 1

\* a timestamp within a date range, both bounds (the midnights of the two dates)
\* included
Within(ts, range) ==
    /\ ts # NaT /\ range[1] # NaT /\ range[2] # NaT
    /\ range[1] * TicksPerDay <= ts
    /\ ts <= range[2] * TicksPerDay

DepartmentKept(i) ==
    widgets.departments # {} => upload.rows[i].dept \in widgets.departments

\* C6 as stated: the working subset is exactly the raw records with a parseable
\* Created Date within both date ranges (bounds included) and, when departments
\* are selected, a Department among them.
C6_WorkingSubsetExact ==
    view.rendered =>
        WorkingSet = {i \in 1..Len(upload.rows) :
                         /\ Within(upload.rows[i].date, widgets.global_date)
                         /\ Within(upload.rows[i].date, widgets.results_filter)
                         /\ DepartmentKept(i)}

\* C6 amended: that holds when the sheet has a Created Date column; when it has
\* none, no date filtering is applied and the working subset is the raw records
\* that pass the department filter. The working subset lists raw records, each
\* once, in their order.
C6_WorkingSubsetExactWithDateColumn ==
    view.rendered =>
        /\ WorkingSet = {i \in 1..Len(upload.rows) :
                            /\ upload.has_date =>
                                  /\ Within(upload.rows[i].date, widgets.global_date)
                                  /\ Within(upload.rows[i].date, widgets.results_filter)
                            /\ DepartmentKept(i)}
        /\ \A i \in DOMAIN view.filtered_df :
              /\ view.filtered_df[i].idx \in 1..Len(upload.rows)
              /\ view.filtered_df[i].state = upload.rows[view.filtered_df[i].idx].state
              /\ view.filtered_df[i].date = upload.rows[view.filtered_df[i].idx].date
              /\ \A j \in DOMAIN view.filtered_df :
                    i < j => view.filtered_df[i].idx < view.filtered_df[j].idx
        /\ view.date_warning = ~upload.has_date

\* C6 witness: a record dated exactly at the end bound is kept, a record with an
\* unparseable date is dropped, and a department is selected.
C6_Witness ==
    /\ view.rendered
    /\ upload.has_date
    /\ Len(upload.rows) = 2
    /\ widgets.global_date = <<0, 1>>
    /\ upload.rows[1].date = 1 * TicksPerDay
    /\ upload.rows[2].date = NaT
    /\ widgets.departments = {dp_Civil}
    /\ WorkingSet = {1}

\* the per-plant rule as the claim states it
ClaimedPlantRule(plant, x) ==
    /\ x # NaN
    /\ IF plant = s_PP THEN startswith(x, s_PP)
       ELSE IF plant = s_CPP THEN startswith(x, s_CPP) \/ startswith(x, s_Power_Plant)
       ELSE IF plant = s_NCU
       THEN \/ startswith(x, s_NCU)
            \/ startswith(x, s_CCR)
            \/ contains(x, s_CCR_Safety_District_2)
       ELSE contains(upper(x), upper(plant))

\* C7: the plant filter selects exactly the records of the working subset that
\* the per-plant rule gives; for "NCU" those starting with "NCU" or "CCR" or
\* containing the literal text "CCR(Safety District-2)".
C7_PlantFilterExact ==
    view.rendered =>
        {view.plant_df[i].idx : i \in DOMAIN view.plant_df}
            = {view.filtered_df[i].idx : i \in
                  {k \in DOMAIN view.filtered_df :
                      ClaimedPlantRule(widgets.selected_plant, view.filtered_df[k].areas)}}

\* C8 as stated: for every plant all matched records carry one plant-specific
\* Area label, and without a match neither table nor export is produced.
C8_AllPlantsOneLabel ==
    view.rendered =>
        /\ \A i, j \in DOMAIN view.plant_df : view.plant_df[i].Area = view.plant_df[j].Area
        /\ view.plant_df = <<>> =>
              ~view.plantwise_summary.shown /\ ~view.plantwise_summary.export

\* C8 amended: for the plants CPP, NCU and PP every matched record carries the
\* plant's display label as its Area; for every other plant a matched record
\* keeps the Area the Area Mapper gave it; without a match neither table nor
\* export is produced, with a match both are.
C8_OverriddenPlantsOneLabel ==
    view.rendered =>
        /\ \A i \in DOMAIN view.plant_df :
              view.plant_df[i].Area =
                  IF widgets.selected_plant = s_CPP THEN s_CPP_label
                  ELSE IF widgets.selected_plant = s_NCU THEN s_NCU_label
                  ELSE IF widgets.selected_plant = s_PP THEN s_PP
                  ELSE map_area(view.plant_df[i].areas)
        /\ view.plant_df = <<>> =>
              ~view.plantwise_summary.shown /\ ~view.plantwise_summary.export
        /\ view.plant_df # <<>> =>
              /\ view.plantwise_summary.shown /\ view.plantwise_summary.export
              /\ \A k \in DOMAIN view.plantwise_summary.groups :
                    \E i \in DOMAIN view.plant_df : k[1] = view.plant_df[i].Area

\* C8 witness: plant "NCU" matched two records that the Area Mapper labels
\* differently, and both carry the NCU display label.
C8_Witness ==
    /\ view.rendered
    /\ widgets.selected_plant = s_NCU
    /\ Len(view.plant_df) = 2
    /\ map_area(view.plant_df[1].areas) # map_area(view.plant_df[2].areas)
    /\ view.plant_df[1].Area = s_NCU_label
    /\ view.plant_df[2].Area = s_NCU_label
    /\ view.plantwise_summary.shown

\* the displayed cell of column c in row j, 0 when the column is deselected
ShownCell(j, c) ==
    IF c \in Range(widgets.selected_columns)
    THEN view.display_table.rows[j].cells[c] ELSE 0

\* C11: no record is counted both as closed and under a Status: Closed implies
\* that Status is absent, a Status of EXPIRED or PENDING CLOSURE implies that
\* Closed is false, and in every Area row of the summary table
\* CLOSED + EXPIRED + PENDING CLOSURE is at most the number of records of that
\* Area in the working subset.
C11_ClosedAndStatusExclusive ==
    /\ \A i \in DOMAIN view.filtered_df :
          /\ view.filtered_df[i].Closed => view.filtered_df[i].Status = NoStatus
          /\ view.filtered_df[i].Status \in {s_EXPIRED, s_PENDING_CLOSURE}
                => ~view.filtered_df[i].Closed
    /\ view.rendered =>
          \A j \in 1..(Len(view.display_table.rows) - 1) :
              ShownCell(j, s_CLOSED) + ShownCell(j, s_EXPIRED)
                      + ShownCell(j, s_PENDING_CLOSURE)
                  <= Cardinality({i \in DOMAIN view.filtered_df :
                         view.filtered_df[i].Area = view.display_table.rows[j].Area})

\* C11 witness: a closed record without a Status and an expired record that is
\* not closed, each counted once in its Area row with all three columns shown.
C11_Witness ==
    /\ view.rendered
    /\ widgets.selected_columns = all_columns
    /\ Len(view.filtered_df) = 2
    /\ view.filtered_df[1].Closed /\ view.filtered_df[1].Status = NoStatus
    /\ ~view.filtered_df[2].Closed /\ view.filtered_df[2].Status = s_EXPIRED
    /\ Len(view.display_table.rows) = 3
    /\ view.display_table.rows[1].cells[s_EXPIRED] = 1
    /\ view.display_table.rows[1].cells[s_CLOSED] = 0
    /\ view.display_table.rows[2].cells[s_CLOSED] = 1
    /\ view.display_table.rows[2].cells[s_EXPIRED] = 0

====
